---- MODULE Spec2Model ----
(***************************************************************************)
(* Model of CorpDK/infra-setup-tools:                                      *)
(*   - the DNS record reconciliation of tools/ddns/agent.py                *)
(*     (cf_dns_update, do_dns_update, dns_update) and of                   *)
(*     ddns-service/ddns.py (do_dns_update),                               *)
(*   - the batch run of tools/ddns/agent.py (__call__, call_cf, call_do)   *)
(*     and of ddns-service/ddns.py (__call__),                             *)
(*   - the allocator of tools/manage/machineidgenerator.py (generate).     *)
(* A DNS provider is the environment: every API call is one step whose     *)
(* result (error, accepted and applied, accepted but not applied) is       *)
(* chosen nondeterministically.                                            *)
(***************************************************************************)
EXTENDS Integers, Sequences, FiniteSets, TLC

VARIABLES
    store,      \* the providers' records: Seq of [zone, name, content, proxied]; the id is the index
    rpc,        \* position inside the running reconcile (cf_dns_update / do_dns_update)
    arg,        \* arguments of the running reconcile: [code, client, zone, name, ip]
    recs,       \* dns_records as bound by the initial list query (the list the for loop iterates)
    idx,        \* position of the for loop in recs
    updated,    \* the local flag `updated`
    ret,        \* how the reconcile ended: "ok" (returned) or the exception that left it
    out,        \* the report lines printed by the running reconcile
    calls,      \* the provider API calls issued by the running reconcile
    prev,       \* the previous finished reconcile: [arg, ret, out], or NoCall
    ncalls,     \* number of reconciles started through dns_update
    bpc,        \* position of the batch run (__call__, call_cf, call_do)
    env,        \* os.getenv: [cftoken, dotoken], TRUE when the variable is set
    zi,         \* position of the zone loop of call_cf / call_do
    hi,         \* position of the host loop inside the zone
    errors,     \* the list `errors` of the running call_cf / call_do
    printed,    \* the error lists printed by __call__ (agent.py:511, 521)
    hist,       \* per host, how its reconcile ended: [ret, out, calls], or NoCall
    lookups,    \* the zone lookups issued so far: Seq of [zone, res]
    exitCode,   \* -1 while the process runs, then its exit status
    crash,      \* the exception that ended the process, or "none"
    apc,        \* position of the allocator (MachineIDGenerator.generate)
    zone_id,    \* self.zone_id
    random_id,  \* self.random_id
    host_label, \* self.host_label
    fqdn,       \* self.fqdn
    committed,  \* [machine_id, ddns_host] once generate has set them, or NoCall
    attempts,   \* number of candidates drawn so far
    queries,    \* the uniqueness queries of the running generate: Seq of [name, n]
    devices,    \* what earlier MachineIDGenerator instances of the device loop committed
    race,       \* two generators run by two processes on one zone: per invocation
                \* [pc, fqdn, attempts, pre, committed]
    inp,        \* MachineIDGenerator.__call__ seen through the lengths of its inputs
    boot        \* the start of a run: the IP lookup and the host file, [pc, ...]

rvars == <<store, rpc, arg, recs, idx, updated, ret, out, calls>>
hvars == <<prev, ncalls>>
bvars == <<bpc, env, zi, hi, errors, printed, hist, lookups, exitCode, crash>>
avars == <<apc, zone_id, random_id, host_label, fqdn, committed, attempts,
           queries, devices, race, inp>>
svars == <<boot>>
vars == <<store, rpc, arg, recs, idx, updated, ret, out, calls, prev, ncalls,
          bpc, env, zi, hi, errors, printed, hist, lookups, exitCode, crash,
          apc, zone_id, random_id, host_label, fqdn, committed, attempts,
          queries, devices, race, inp, boot>>

----------------------------------------------------------------------------
(* Names are sequences of one-character strings, so that str.find and      *)
(* str.removesuffix are computed and not assumed.                          *)

DOT == <<".">>

\* ".".join([a, b])
Join(a, b) == a \o DOT \o b

MatchAt(s, sub, i) ==
    /\ i + Len(sub) - 1 <= Len(s)
    /\ \A k \in 1..Len(sub) : s[i + k - 1] = sub[k]

\* str.find: the lowest 0-based index where sub occurs in s, or -1
Find(s, sub) ==
    IF \E i \in 1..(Len(s) + 1) : MatchAt(s, sub, i)
    THEN (CHOOSE i \in 1..(Len(s) + 1) :
            /\ MatchAt(s, sub, i)
            /\ \A j \in 1..(i - 1) : ~MatchAt(s, sub, j)) - 1
    ELSE -1

\* str.removesuffix
RemoveSuffix(s, suf) ==
    IF /\ Len(suf) > 0
       /\ Len(s) >= Len(suf)
       /\ SubSeq(s, Len(s) - Len(suf) + 1, Len(s)) = suf
    THEN SubSeq(s, 1, Len(s) - Len(suf))
    ELSE s

----------------------------------------------------------------------------
(* The configuration and the addresses.                                    *)

ZoneCF1 == <<"p", ".", "c">>
ZoneCF2 == <<"q", ".", "c">>
ZoneDO1 == <<"r", ".", "c">>

\* Cloudflare's opaque zone identifiers (zones[0]["id"])
ZoneIdCF1 == <<"7">>
ZoneIdCF2 == <<"8">>

H1 == Join(<<"a">>, ZoneCF1)
H2 == Join(<<"b">>, ZoneCF1)
H3 == Join(<<"a">>, ZoneCF2)
H4 == Join(<<"a">>, ZoneDO1)
H5 == Join(<<"b">>, ZoneDO1)
\* a host the file lists under the DigitalOcean zone though it is a name of
\* another zone (parse_host_file, agent.py:460-463, does not compare them)
H6 == Join(<<"b">>, ZoneCF2)

\* self.dns_names_cf / self.dns_names_do: zone -> ordered hosts, in file order
DnsNamesCF == << [zone |-> ZoneCF1, id |-> ZoneIdCF1, hosts |-> <<H1, H2>>],
                 [zone |-> ZoneCF2, id |-> ZoneIdCF2, hosts |-> <<H3>>] >>
DnsNamesDO == << [zone |-> ZoneDO1, hosts |-> <<H4, H5, H6>>] >>

IPOld == "2001:db8::1"
IPNew == "2001:db8::2"
Placeholder == "::1"

NoCall == [none |-> TRUE]

\* bound: number of records the providers hold before the first call
MaxInitRecs == 2
\* bound: number of reconciles started one after the other through dns_update
MaxCalls == 2
\* bound: number of records the providers hold before a batch run
MaxBatchRecs == 2

Hosts == {H1, H2, H3, H4, H5, H6}

----------------------------------------------------------------------------
(* The provider (environment).                                             *)

\* the (zone key, host name) pairs the configuration names, per provider:
\* Cloudflare addresses a zone by its id, DigitalOcean by its name
TargetsCF ==
    UNION { { [zone |-> DnsNamesCF[k].id, name |-> DnsNamesCF[k].hosts[i]] :
                i \in 1..Len(DnsNamesCF[k].hosts) } : k \in 1..Len(DnsNamesCF) }
TargetsDO ==
    UNION { { [zone |-> DnsNamesDO[k].zone, name |-> DnsNamesDO[k].hosts[i]] :
                i \in 1..Len(DnsNamesDO[k].hosts) } : k \in 1..Len(DnsNamesDO) }

\* what a record of a zone may look like before the program runs
InitRecords ==
    { [zone |-> t.zone, name |-> t.name, content |-> c, proxied |-> p] :
        t \in TargetsCF, c \in {IPOld, IPNew}, p \in BOOLEAN }
    \cup
    { [zone |-> t.zone, name |-> t.name, content |-> c, proxied |-> FALSE] :
        t \in {u \in TargetsDO : Find(u.name, u.zone) # -1}, c \in {IPOld, IPNew} }

\* the records that matter to the calls made through dns_update: those of
\* H1 and H4, and one of H2, a neighbour in H1's zone
InitRecordsReconcile ==
    { r \in InitRecords : r.name \in {H1, H4} }
    \cup {[zone |-> ZoneIdCF1, name |-> H2, content |-> IPOld, proxied |-> FALSE]}

\* the records before a batch run: any host, either value, not proxied
InitRecordsBatch == { r \in InitRecords : ~r.proxied }

Stores(records, n) == UNION { [1..k -> records] : k \in 0..n }

\* list_records / dns_records.get: the records of the zone with that name, by id
MatchingIds(st, zone, name) ==
    SelectSeq([i \in 1..Len(st) |-> i],
              LAMBDA i : st[i].zone = zone /\ st[i].name = name)

\* ListRecords without the name filter: every address record of the zone
ListRecordsAnyName(st, zone, name) ==
    LET ids == SelectSeq([i \in 1..Len(st) |-> i], LAMBDA i : st[i].zone = zone)
    IN  [k \in 1..Len(ids) |->
            [id |-> ids[k], content |-> st[ids[k]].content,
             proxied |-> st[ids[k]].proxied]]

\* the address records of the zone at the name (agent.py:119-120, 220)
ListRecords(st, zone, name) ==
    LET ids == MatchingIds(st, zone, name)
    IN  [k \in 1..Len(ids) |->
            [id |-> ids[k], content |-> st[ids[k]].content,
             proxied |-> st[ids[k]].proxied]]

\* the provider applies an update of record id
ApplyUpdate(st, id, name, content, proxied) ==
    [st EXCEPT ![id] = [zone |-> st[id].zone, name |-> name,
                        content |-> content, proxied |-> proxied]]

\* the provider applies a create
ApplyCreate(st, zone, name, content) ==
    Append(st, [zone |-> zone, name |-> name, content |-> content,
                proxied |-> FALSE])

----------------------------------------------------------------------------
(* Reconcile: cf_dns_update and do_dns_update of tools/ddns/agent.py       *)
(* (code "cf", "do") and do_dns_update of ddns-service/ddns.py ("svc").    *)

IsCF == arg.code \in {"cf", "svc"}

\* DoName without the removal of the suffix: the full host name
DoNameFull == arg.name

\* agent.py:217: dns_name with the zone suffix removed
DoName == RemoveSuffix(arg.name, DOT \o arg.zone)

\* the name a record gets when the provider stores it: Cloudflare takes the
\* full name, DigitalOcean takes a name relative to the domain
StoredName == IF IsCF THEN arg.name ELSE Join(DoName, arg.zone)

\* one API call: the operation, the record id it names (0: none), its result,
\* and for the query after a write whether the written record holds the target
Call(op, id, res, vis) == [op |-> op, id |-> id, res |-> res, vis |-> vis]

Return(r) ==
    /\ rpc' = "returned"
    /\ ret' = r

\* the exception that leaves the reconcile when an API call fails:
\* agent.py:121-125 (and 158-162, 182-186) wrap a CloudFlareAPIError, whose
\* __int__ serves %d; agent.py:223-227 (266-270, 293-297) format any Exception
\* with %d, which raises TypeError inside the handler
ApiFailure == IF IsCF THEN "DDNSUpdateError" ELSE "TypeError"

\* R_List without the test of agent.py:212-214: a host outside the zone is
\* looked up like any other
R_ListNoZoneTest ==
    /\ rpc = "list"
    /\ \E res \in {"ok", "err"} :
        CASE arg.code = "do" /\ arg.client # "do" ->
                /\ Return("TypeError")
                /\ UNCHANGED <<store, recs, idx, updated, out, calls>>
          [] OTHER ->
                /\ calls' = Append(calls, Call("list", 0, res, TRUE))
                /\ IF res = "err"
                   THEN /\ Return(ApiFailure)
                        /\ UNCHANGED <<recs, idx, updated>>
                   ELSE /\ recs' = ListRecords(store, arg.zone, arg.name)
                        /\ idx' = 1
                        /\ updated' = FALSE
                        /\ rpc' = "loop"
                        /\ ret' = ret
                /\ UNCHANGED <<store, out>>
    /\ UNCHANGED arg

\* the initial list query (agent.py:118-127, 210-229; ddns.py:86-95)
R_List ==
    /\ rpc = "list"
    /\ \E res \in {"ok", "err"} :
        CASE arg.code = "do" /\ Find(arg.name, arg.zone) = -1 ->
                \* agent.py:212-214
                /\ out' = Append(out, "ERR_NOT_IN_ZONE")
                /\ Return("ok")
                /\ UNCHANGED <<store, recs, idx, updated, calls>>
          [] arg.code = "do" /\ Find(arg.name, arg.zone) # -1 /\ arg.client # "do" ->
                \* do.domains on a client without that attribute: AttributeError,
                \* caught at agent.py:223 and formatted with %d
                /\ Return("TypeError")
                /\ UNCHANGED <<store, recs, idx, updated, out, calls>>
          [] OTHER ->
                /\ calls' = Append(calls, Call("list", 0, res, TRUE))
                /\ IF res = "err"
                   THEN /\ Return(ApiFailure)
                        /\ UNCHANGED <<recs, idx, updated>>
                   ELSE /\ recs' = ListRecords(store, arg.zone, arg.name)
                        /\ idx' = 1
                        /\ updated' = FALSE
                        /\ rpc' = "loop"
                        /\ ret' = ret
                /\ UNCHANGED <<store, out>>
    /\ UNCHANGED arg

\* R_Loop without the test of agent.py:165 / 273: the create follows the loop
\* whether or not a record was found
R_LoopAlwaysCreate ==
    /\ rpc = "loop"
    /\ IF idx > Len(recs)
       THEN /\ rpc' = "post"
            /\ UNCHANGED <<idx, updated, out, ret>>
       ELSE IF recs[idx].content = arg.ip
       THEN /\ out' = Append(out, "UNCHANGED")
            /\ updated' = TRUE
            /\ idx' = idx + 1
            /\ UNCHANGED <<rpc, ret>>
       ELSE /\ rpc' = "put"
            /\ UNCHANGED <<idx, updated, out, ret>>
    /\ UNCHANGED <<store, arg, recs, calls>>

\* R_Loop without the comparison of agent.py:133 / 237: every record is updated
R_LoopNoCompare ==
    /\ rpc = "loop"
    /\ IF idx > Len(recs)
       THEN /\ IF updated THEN Return("ok") ELSE rpc' = "post" /\ ret' = ret
            /\ UNCHANGED <<idx, updated, out>>
       ELSE /\ rpc' = "put"
            /\ UNCHANGED <<idx, updated, out, ret>>
    /\ UNCHANGED <<store, arg, recs, calls>>

\* one turn of `for dns_record in dns_records`, up to the API call
\* (agent.py:130-147, 165-174, 234-254, 273-287; ddns.py:98-115, 133-142)
R_Loop ==
    /\ rpc = "loop"
    /\ IF idx > Len(recs)
       THEN /\ IF updated THEN Return("ok") ELSE rpc' = "post" /\ ret' = ret
            /\ UNCHANGED <<idx, updated, out>>
       ELSE IF recs[idx].content = arg.ip
       THEN /\ out' = Append(out, "UNCHANGED")
            /\ updated' = TRUE
            /\ idx' = idx + 1
            /\ UNCHANGED <<rpc, ret>>
       ELSE /\ rpc' = "put"
            /\ UNCHANGED <<idx, updated, out, ret>>
    /\ UNCHANGED <<store, arg, recs, calls>>

\* proxied_state without the read of the record: the flag is sent as off
ProxiedStateOff == FALSE

\* agent.py:138 (ddns.py:106): the flag of the record at hand, sent back with
\* the update; a DigitalOcean record has none
proxied_state == IF IsCF THEN recs[idx].proxied ELSE FALSE

\* R_Put with one retry: an update that fails is issued a second time
R_PutRetry ==
    /\ rpc = "put"
    /\ \E res \in {"err", "applied", "dropped", "empty"} :
        /\ res = "empty" => ~IsCF
        /\ calls' = Append(calls, Call("update", recs[idx].id, res, res = "applied"))
        /\ store' = IF res = "applied"
                    THEN ApplyUpdate(store, recs[idx].id, StoredName, arg.ip,
                                     proxied_state)
                    ELSE store
        /\ CASE res = "err" ->
                    /\ IF \E k \in 1..Len(calls) :
                             calls[k].op = "update" /\ calls[k].id = recs[idx].id
                       THEN Return(ApiFailure)
                       ELSE rpc' = "put" /\ ret' = ret
                    /\ UNCHANGED <<idx, updated, out>>
             [] res = "empty" ->
                    \* agent.py:263-265: no "domain_record" in the response
                    /\ out' = Append(out, "ERR_NOT_UPDATED")
                    /\ Return("ok")
                    /\ UNCHANGED <<idx, updated>>
             [] OTHER ->
                    IF IsCF
                    THEN /\ rpc' = "vput"
                         /\ UNCHANGED <<idx, updated, out, ret>>
                    ELSE \* agent.py:261-262, 271
                         /\ updated' = TRUE
                         /\ out' = Append(out, "UPDATED")
                         /\ idx' = idx + 1
                         /\ rpc' = "loop"
                         /\ ret' = ret
    /\ UNCHANGED <<arg, recs>>

\* update_record / dns_records.put (agent.py:148-151, 255-271; ddns.py:116-119)
R_Put ==
    /\ rpc = "put"
    /\ \E res \in {"err", "applied", "dropped", "empty"} :
        /\ res = "empty" => ~IsCF
        /\ calls' = Append(calls, Call("update", recs[idx].id, res, res = "applied"))
        /\ store' = IF res = "applied"
                    THEN ApplyUpdate(store, recs[idx].id, StoredName, arg.ip,
                                     proxied_state)
                    ELSE store
        /\ CASE res = "err" ->
                    /\ Return(ApiFailure)
                    /\ UNCHANGED <<idx, updated, out>>
             [] res = "empty" ->
                    \* agent.py:263-265: no "domain_record" in the response
                    /\ out' = Append(out, "ERR_NOT_UPDATED")
                    /\ Return("ok")
                    /\ UNCHANGED <<idx, updated>>
             [] OTHER ->
                    IF IsCF
                    THEN /\ rpc' = "vput"
                         /\ UNCHANGED <<idx, updated, out, ret>>
                    ELSE \* agent.py:261-262, 271
                         /\ updated' = TRUE
                         /\ out' = Append(out, "UPDATED")
                         /\ idx' = idx + 1
                         /\ rpc' = "loop"
                         /\ ret' = ret
    /\ UNCHANGED <<arg, recs>>

\* the query after the update (agent.py:152-163; ddns.py:120-131)
R_VerifyPut ==
    /\ rpc = "vput"
    /\ \E res \in {"ok", "err"} :
        /\ calls' = Append(calls, Call("list", recs[idx].id, res,
                                    store[recs[idx].id].content = arg.ip))
        /\ LET q == ListRecords(store, arg.zone, arg.name)
           IN  CASE res = "err" ->
                        /\ Return("DDNSUpdateError")
                        /\ UNCHANGED <<idx, updated, out>>
                 [] res = "ok" /\ Len(q) = 0 ->
                        /\ Return("IndexError")
                        /\ UNCHANGED <<idx, updated, out>>
                 [] res = "ok" /\ Len(q) > 0 /\ q[1].content = arg.ip ->
                        /\ updated' = TRUE
                        /\ out' = Append(out, "UPDATED")
                        /\ idx' = idx + 1
                        /\ rpc' = "loop"
                        /\ ret' = ret
                 [] OTHER ->
                        \* agent.py:157: raise DDNSUpdateError("Error: Record was not updated")
                        /\ Return("DDNSUpdateError")
                        /\ UNCHANGED <<idx, updated, out>>
    /\ UNCHANGED <<store, arg, recs>>

\* create_record / dns_records.post (agent.py:175-176, 288-298; ddns.py:143-144)
R_Post ==
    /\ rpc = "post"
    /\ \E res \in {"err", "applied", "dropped", "empty"} :
        /\ res = "empty" => ~IsCF
        /\ calls' = Append(calls, Call("create", 0, res, res = "applied"))
        /\ store' = IF res = "applied"
                    THEN ApplyCreate(store, arg.zone, StoredName, arg.ip)
                    ELSE store
        /\ CASE res = "err" ->
                    \* ddns.py:149-153 ends the process instead of raising
                    /\ Return(IF arg.code = "svc" THEN "SystemExit" ELSE ApiFailure)
                    /\ out' = out
             [] res = "empty" ->
                    \* agent.py:290-292
                    /\ out' = Append(out, "ERR_NOT_CREATED")
                    /\ Return("ok")
             [] OTHER ->
                    IF IsCF
                    THEN /\ rpc' = "vpost"
                         /\ UNCHANGED <<out, ret>>
                    ELSE \* agent.py:298
                         /\ out' = Append(out, "CREATED")
                         /\ Return("ok")
    /\ UNCHANGED <<arg, recs, idx, updated>>

\* the query after the create (agent.py:177-187; ddns.py:145-154)
R_VerifyPost ==
    /\ rpc = "vpost"
    /\ \E res \in {"ok", "err"} :
        /\ calls' = Append(calls, Call("list", 0, res,
                                    calls[Len(calls)].res = "applied"))
        /\ LET q == ListRecords(store, arg.zone, arg.name)
           IN  CASE res = "err" ->
                        /\ Return(IF arg.code = "svc" THEN "SystemExit" ELSE "DDNSUpdateError")
                        /\ out' = out
                 [] res = "ok" /\ Len(q) = 0 ->
                        /\ Return("IndexError")
                        /\ out' = out
                 [] res = "ok" /\ Len(q) > 0 /\ q[1].content # arg.ip ->
                        \* agent.py:179-181 prints and returns; ddns.py:147-148 exits
                        /\ out' = Append(out, "ERR_NOT_CREATED")
                        /\ Return(IF arg.code = "svc" THEN "SystemExit" ELSE "ok")
                 [] OTHER ->
                        /\ out' = Append(out, "CREATED")
                        /\ Return("ok")
    /\ UNCHANGED <<store, arg, recs, idx, updated>>

Reconcile == R_List \/ R_Loop \/ R_Put \/ R_VerifyPut \/ R_Post \/ R_VerifyPost

\* entering a reconcile with the given arguments
Enter(a) ==
    /\ arg' = a
    /\ rpc' = "list"
    /\ recs' = <<>>
    /\ idx' = 1
    /\ updated' = FALSE
    /\ ret' = "none"
    /\ out' = <<>>
    /\ calls' = <<>>

----------------------------------------------------------------------------
(* dns_update (agent.py:525-531) called from outside, one call after the   *)
(* other, and the same for ddns.py's do_dns_update.                        *)

CallArgs ==
    { [code |-> c, client |-> "cf", zone |-> ZoneIdCF1, name |-> H1, ip |-> IPNew] :
        c \in {"cf", "svc"} }
    \cup
    { [code |-> "do", client |-> "do", zone |-> ZoneDO1, name |-> n, ip |-> IPNew] :
        n \in {H4, H1} }

dns_update ==
    /\ rpc \in {"idle", "returned"}
    /\ ncalls < MaxCalls
    /\ \E a \in CallArgs : Enter(a)
    /\ prev' = IF rpc = "returned" THEN [arg |-> arg, ret |-> ret, out |-> out]
               ELSE NoCall
    /\ ncalls' = ncalls + 1
    /\ UNCHANGED store
    /\ UNCHANGED <<bvars, avars, svars>>

\* no run is followed from its start
BootIdle == [pc |-> "none"]

\* the processes that run a generator on the same zone at the same time
Invocations == {1, 2}

\* no generator is run by a second process
RaceIdle ==
    [p \in Invocations |->
        [pc |-> "none", fqdn |-> <<>>, attempts |-> 0, pre |-> 0, committed |-> FALSE]]

\* no MachineIDGenerator.__call__ is followed through its input lengths
InputIdle == [pc |-> "none"]

\* the allocator before MachineIDGenerator is constructed
AllocatorIdle ==
    /\ apc = "none"
    /\ zone_id = <<>>
    /\ random_id = <<>>
    /\ host_label = <<>>
    /\ fqdn = <<>>
    /\ committed = NoCall
    /\ attempts = 0
    /\ queries = <<>>
    /\ devices = <<>>
    /\ race = RaceIdle
    /\ inp = InputIdle

InitReconcile ==
    /\ store \in Stores(InitRecordsReconcile, MaxInitRecs)
    /\ rpc = "idle"
    /\ arg = [code |-> "cf", client |-> "cf", zone |-> ZoneIdCF1, name |-> H1, ip |-> IPNew]
    /\ recs = <<>>
    /\ idx = 1
    /\ updated = FALSE
    /\ ret = "none"
    /\ out = <<>>
    /\ calls = <<>>
    /\ prev = NoCall
    /\ ncalls = 0
    /\ bpc = "none"
    /\ env = [cftoken |-> TRUE, dotoken |-> TRUE]
    /\ zi = 1
    /\ hi = 1
    /\ errors = <<>>
    /\ printed = <<>>
    /\ hist = [h \in Hosts |-> NoCall]
    /\ lookups = <<>>
    /\ exitCode = -1
    /\ crash = "none"
    /\ boot = BootIdle
    /\ AllocatorIdle

NextReconcile ==
    \/ dns_update
    \/ Reconcile /\ UNCHANGED <<hvars, bvars, avars, svars>>

SpecReconcile == InitReconcile /\ [][NextReconcile]_vars

----------------------------------------------------------------------------
(* The batch run of tools/ddns/agent.py: __call__, call_cf, call_do.       *)

\* the process ends: normally (status 0), or on an uncaught exception
\* (traceback, status 1)
Exit(code, exc) ==
    /\ bpc' = "done"
    /\ exitCode' = code
    /\ crash' = exc

\* an entry of the list `errors`: what failed (a zone lookup, or the reconcile
\* of a host) and how
Entry(kind, zone, host, why) == [kind |-> kind, zone |-> zone, host |-> host, why |-> why]

Record(h) == [hist EXCEPT ![h] = [ret |-> ret, out |-> out, calls |-> calls]]

\* agent.py:505-513: the Cloudflare portion starts when the token is set and
\* a Cloudflare zone is configured
B_StartCF ==
    /\ bpc = "cf"
    /\ IF env.cftoken /\ Len(DnsNamesCF) # 0
       THEN /\ bpc' = "cf_zone"
            /\ errors' = <<>>
            /\ zi' = 1
       ELSE /\ bpc' = "do"
            /\ UNCHANGED <<errors, zi>>
    /\ UNCHANGED <<env, hi, printed, hist, lookups, exitCode, crash, rvars, hvars, avars, svars>>

\* B_ZoneCF without the test of agent.py:349: several zones of the same name
\* pass, and the first one is used
B_ZoneCFAnyMatch ==
    /\ bpc = "cf_zone"
    /\ IF zi > Len(DnsNamesCF)
       THEN /\ printed' = IF Len(errors) # 0 THEN Append(printed, errors) ELSE printed
            /\ bpc' = "do"
            /\ UNCHANGED <<zi, hi, errors, lookups>>
       ELSE \E res \in {"err", "none", "one", "many"} :
            /\ lookups' = Append(lookups, [zone |-> DnsNamesCF[zi].zone, res |-> res])
            /\ IF res \in {"one", "many"}
               THEN /\ bpc' = "cf_host"
                    /\ hi' = 1
                    /\ UNCHANGED <<zi, errors, printed>>
               ELSE /\ errors' = Append(errors, Entry("zone", DnsNamesCF[zi].zone, <<>>, res))
                    /\ zi' = zi + 1
                    /\ UNCHANGED <<bpc, hi, printed>>
    /\ UNCHANGED <<env, hist, exitCode, crash, rvars, hvars, avars, svars>>

\* agent.py:333-356 and 364-365: the next zone of call_cf is looked up, or
\* call_cf ends
B_ZoneCF ==
    /\ bpc = "cf_zone"
    /\ IF zi > Len(DnsNamesCF)
       THEN \* agent.py:364-365 raise, caught and printed at agent.py:510-511
            /\ printed' = IF Len(errors) # 0 THEN Append(printed, errors) ELSE printed
            /\ bpc' = "do"
            /\ UNCHANGED <<zi, hi, errors, lookups>>
       ELSE \E res \in {"err", "none", "one", "many"} :
            /\ lookups' = Append(lookups, [zone |-> DnsNamesCF[zi].zone, res |-> res])
            /\ IF res = "one"
               THEN /\ bpc' = "cf_host"
                    /\ hi' = 1
                    /\ UNCHANGED <<zi, errors, printed>>
               ELSE /\ errors' = Append(errors, Entry("zone", DnsNamesCF[zi].zone, <<>>, res))
                    /\ zi' = zi + 1
                    /\ UNCHANGED <<bpc, hi, printed>>
    /\ UNCHANGED <<env, hist, exitCode, crash, rvars, hvars, avars, svars>>

\* B_HostCF with the identifier of the first zone in place of the one that
\* the lookup of the host's zone returned
B_HostCFFirstZone ==
    /\ bpc = "cf_host"
    /\ IF hi > Len(DnsNamesCF[zi].hosts)
       THEN /\ zi' = zi + 1
            /\ bpc' = "cf_zone"
            /\ UNCHANGED rvars
       ELSE /\ Enter([code |-> "cf", client |-> "cf", zone |-> DnsNamesCF[1].id,
                      name |-> DnsNamesCF[zi].hosts[hi], ip |-> IPNew])
            /\ bpc' = "cf_call"
            /\ UNCHANGED <<zi, store>>
    /\ UNCHANGED <<env, hi, errors, printed, hist, lookups, exitCode, crash, hvars, avars, svars>>

\* agent.py:358-360: the next host of the zone is reconciled
B_HostCF ==
    /\ bpc = "cf_host"
    /\ IF hi > Len(DnsNamesCF[zi].hosts)
       THEN /\ zi' = zi + 1
            /\ bpc' = "cf_zone"
            /\ UNCHANGED rvars
       ELSE /\ Enter([code |-> "cf", client |-> "cf", zone |-> DnsNamesCF[zi].id,
                      name |-> DnsNamesCF[zi].hosts[hi], ip |-> IPNew])
            /\ bpc' = "cf_call"
            /\ UNCHANGED <<zi, store>>
    /\ UNCHANGED <<env, hi, errors, printed, hist, lookups, exitCode, crash, hvars, avars, svars>>

\* agent.py:360-362: cf_dns_update returned or raised. The handler of
\* agent.py:362 formats "Error Updating %s: %s" % (e) with one argument, which
\* raises TypeError; no handler of call_cf or __call__ catches it, nor any
\* other exception than DDNSUpdateError
B_ReturnCF ==
    /\ bpc = "cf_call"
    /\ rpc = "returned"
    /\ hist' = Record(arg.name)
    /\ IF ret = "ok"
       THEN /\ hi' = hi + 1
            /\ bpc' = "cf_host"
            /\ UNCHANGED <<exitCode, crash>>
       ELSE /\ Exit(1, IF ret = "DDNSUpdateError" THEN "TypeError" ELSE ret)
            /\ hi' = hi
    /\ UNCHANGED <<env, zi, errors, printed, lookups, rvars, hvars, avars, svars>>

\* agent.py:515-523: the DigitalOcean portion, then the end of __call__
B_StartDO ==
    /\ bpc = "do"
    /\ IF env.dotoken /\ Len(DnsNamesDO) # 0
       THEN /\ bpc' = "do_zone"
            /\ errors' = <<>>
            /\ zi' = 1
            /\ UNCHANGED <<exitCode, crash>>
       ELSE /\ Exit(0, "none")
            /\ UNCHANGED <<errors, zi>>
    /\ UNCHANGED <<env, hi, printed, hist, lookups, rvars, hvars, avars, svars>>

\* agent.py:400-404 and 411-415: the next zone of call_do is fetched, or
\* call_do ends and with it __call__
B_ZoneDO ==
    /\ bpc = "do_zone"
    /\ IF zi > Len(DnsNamesDO)
       THEN \* agent.py:414-415 raise, caught and printed at agent.py:520-521
            /\ printed' = IF Len(errors) # 0 THEN Append(printed, errors) ELSE printed
            /\ Exit(0, "none")
            /\ UNCHANGED <<zi, hi, errors, lookups>>
       ELSE \E res \in {"err", "not_found", "found"} :
            /\ lookups' = Append(lookups, [zone |-> DnsNamesDO[zi].zone, res |-> res])
            /\ IF res = "found"
               THEN /\ bpc' = "do_host"
                    /\ hi' = 1
                    /\ UNCHANGED <<zi, errors, printed, exitCode, crash>>
               ELSE /\ errors' = Append(errors, Entry("zone", DnsNamesDO[zi].zone, <<>>, res))
                    /\ zi' = zi + 1
                    /\ UNCHANGED <<bpc, hi, printed, exitCode, crash>>
    /\ UNCHANGED <<env, hist, rvars, hvars, avars, svars>>

\* agent.py:406-408
B_HostDO ==
    /\ bpc = "do_host"
    /\ IF hi > Len(DnsNamesDO[zi].hosts)
       THEN /\ zi' = zi + 1
            /\ bpc' = "do_zone"
            /\ UNCHANGED rvars
       ELSE /\ Enter([code |-> "do", client |-> "do", zone |-> DnsNamesDO[zi].zone,
                      name |-> DnsNamesDO[zi].hosts[hi], ip |-> IPNew])
            /\ bpc' = "do_call"
            /\ UNCHANGED <<zi, store>>
    /\ UNCHANGED <<env, hi, errors, printed, hist, lookups, exitCode, crash, hvars, avars, svars>>

\* agent.py:408-413: do_dns_update returned or raised. A DDNSUpdateError
\* reaches the handler of agent.py:410, whose format raises TypeError; that
\* and every other exception is caught by agent.py:411-412, outside the host
\* loop, so the remaining hosts of the zone are skipped
B_ReturnDO ==
    /\ bpc = "do_call"
    /\ rpc = "returned"
    /\ hist' = Record(arg.name)
    /\ IF ret = "ok"
       THEN /\ hi' = hi + 1
            /\ bpc' = "do_host"
            /\ UNCHANGED <<zi, errors>>
       ELSE /\ errors' = Append(errors, Entry("DO Error", DnsNamesDO[zi].zone, arg.name,
                                               IF ret = "DDNSUpdateError"
                                               THEN "TypeError" ELSE ret))
            /\ zi' = zi + 1
            /\ bpc' = "do_zone"
            /\ hi' = hi
    /\ UNCHANGED <<env, printed, lookups, exitCode, crash, rvars, hvars, avars, svars>>

Init ==
    /\ store \in Stores(InitRecordsBatch, MaxBatchRecs)
    /\ rpc = "idle"
    /\ arg = [code |-> "cf", client |-> "cf", zone |-> ZoneIdCF1, name |-> H1, ip |-> IPNew]
    /\ recs = <<>>
    /\ idx = 1
    /\ updated = FALSE
    /\ ret = "none"
    /\ out = <<>>
    /\ calls = <<>>
    /\ prev = NoCall
    /\ ncalls = 0
    /\ bpc = "cf"
    /\ env \in [cftoken : BOOLEAN, dotoken : BOOLEAN]
    /\ zi = 1
    /\ hi = 1
    /\ errors = <<>>
    /\ printed = <<>>
    /\ hist = [h \in Hosts |-> NoCall]
    /\ lookups = <<>>
    /\ exitCode = -1
    /\ crash = "none"
    /\ boot = BootIdle
    /\ AllocatorIdle

Next ==
    \/ B_StartCF
    \/ B_ZoneCF
    \/ B_HostCF
    \/ B_ReturnCF
    \/ B_StartDO
    \/ B_ZoneDO
    \/ B_HostDO
    \/ B_ReturnDO
    \/ Reconcile /\ UNCHANGED <<hvars, bvars, avars, svars>>

Spec == Init /\ [][Next]_vars

----------------------------------------------------------------------------
(* The allocator: MachineIDGenerator.generate, validate, unique.           *)

\* bound: random_id_length, the number of letters of a random id
LabelLength == 1
\* bound: number of candidates one allocation may draw
MaxAttempts == 3
\* bound: number_of_devices of the device loop
MaxDevices == 2

\* stands for string.ascii_lowercase
Alphabet == {"a", "b"}
RandomIds == [1..LabelLength -> Alphabet]

\* machine_prefix and machine_network
Prefix == <<"m">>
BaseDomain == Join(<<"n">>, ZoneCF1)

\* an identifier whose text occurs in the composed names
ZoneIdHex == <<"c">>
AllocZoneIds == {ZoneIdCF1, ZoneIdHex}

\* HostLabel without the separator
HostLabelNoDash(rid) == Prefix \o rid

\* machineidgenerator.py:317-318
HostLabel(rid) == Prefix \o <<"-">> \o rid
Fqdn(rid) == Join(HostLabel(rid), BaseDomain)

\* validators.domain, as far as the composed names can differ: at least two
\* labels, none empty, none starting or ending with a hyphen
ValidDomain(s) ==
    /\ Len(s) > 0
    /\ s[1] \notin {".", "-"}
    /\ s[Len(s)] \notin {".", "-"}
    /\ \E i \in 1..Len(s) : s[i] = "."
    /\ \A i \in 1..(Len(s) - 1) :
          /\ ~(s[i] = "." /\ s[i + 1] \in {".", "-"})
          /\ ~(s[i] = "-" /\ s[i + 1] = ".")

InitRecordsAlloc ==
    { [zone |-> z, name |-> Fqdn(rid), content |-> c, proxied |-> FALSE] :
        z \in AllocZoneIds, rid \in RandomIds, c \in {IPOld, Placeholder} }

\* one uniqueness query: the name asked for and the number of records the
\* provider holds at it
Query(name, n) == [name |-> name, n |-> n]

\* a uniqueness query that raised CloudFlareAPIError
\* (machineidgenerator.py:124-128): the program learns no number
QueryFailed(name) == Query(name, -1)

\* A_Unique with a failed query taken for "not unique": validate returns
\* False and the loop draws the next candidate
A_UniqueRetry ==
    /\ apc = "unique"
    /\ \E res \in {"ok", "err"} :
        IF res = "err"
        THEN /\ apc' = "gen"
             /\ queries' = Append(queries, QueryFailed(fqdn))
        ELSE /\ apc' = IF Len(ListRecords(store, zone_id, fqdn)) # 0
                       THEN "gen" ELSE "commit"
             /\ queries' = Append(queries, Query(fqdn, Len(ListRecords(store, zone_id, fqdn))))
    /\ UNCHANGED <<exitCode, crash>>
    /\ UNCHANGED <<zone_id, random_id, host_label, fqdn, committed, attempts, devices, race, inp>>
    /\ UNCHANGED <<bpc, env, zi, hi, errors, printed, hist, lookups, rvars, hvars, svars>>

\* machineidgenerator.py:316-318 and 108-109: a candidate is drawn and
\* composed; a name that is no domain name sends the loop round again
A_Generate ==
    /\ apc = "gen"
    /\ attempts < MaxAttempts
    /\ \E rid \in RandomIds :
        /\ random_id' = rid
        /\ host_label' = HostLabel(rid)
        /\ fqdn' = Join(HostLabel(rid), BaseDomain)
        /\ apc' = IF ValidDomain(Fqdn(rid)) THEN "unique" ELSE "gen"
    /\ attempts' = attempts + 1
    /\ UNCHANGED <<zone_id, committed, queries, devices, race, inp, rvars, hvars, bvars, svars>>

\* machineidgenerator.py:110-131: the uniqueness query
A_Unique ==
    /\ apc = "unique"
    /\ \E res \in {"ok", "err"} :
        IF res = "err"
        THEN \* machineidgenerator.py:124-128: exit(message)
             /\ apc' = "exit"
             /\ exitCode' = 1
             /\ crash' = "SystemExit"
             /\ queries' = Append(queries, QueryFailed(fqdn))
        ELSE /\ apc' = IF Len(ListRecords(store, zone_id, fqdn)) # 0
                       THEN "gen" ELSE "commit"
             /\ queries' = Append(queries, Query(fqdn, Len(ListRecords(store, zone_id, fqdn))))
             /\ UNCHANGED <<exitCode, crash>>
    /\ UNCHANGED <<zone_id, random_id, host_label, fqdn, committed, attempts, devices, race, inp>>
    /\ UNCHANGED <<bpc, env, zi, hi, errors, printed, hist, lookups, rvars, hvars, svars>>

\* A_Commit with the do_dns_update of ddns-service/ddns.py, the Cloudflare
\* reconcile, in place of that of tools.ddns.agent
A_CommitSvc ==
    /\ apc = "commit"
    /\ Enter([code |-> "svc", client |-> "cf", zone |-> zone_id, name |-> fqdn,
              ip |-> Placeholder])
    /\ apc' = "call"
    /\ UNCHANGED <<store, zone_id, random_id, host_label, fqdn, committed, attempts,
                   queries, devices, race, inp>>
    /\ UNCHANGED <<hvars, bvars, svars>>

\* machineidgenerator.py:320-321: ddns.do_dns_update(self.cf, self.zone_id,
\* self.fqdn, "::1"), the do_dns_update of tools.ddns.agent (line 66), called
\* with the Cloudflare client and the Cloudflare zone id
A_Commit ==
    /\ apc = "commit"
    /\ Enter([code |-> "do", client |-> "cf", zone |-> zone_id, name |-> fqdn,
              ip |-> Placeholder])
    /\ apc' = "call"
    /\ UNCHANGED <<store, zone_id, random_id, host_label, fqdn, committed, attempts,
                   queries, devices, race, inp>>
    /\ UNCHANGED <<hvars, bvars, svars>>

\* machineidgenerator.py:321-324: do_dns_update returned, or raised an
\* exception that nothing catches
A_Return ==
    /\ apc = "call"
    /\ rpc = "returned"
    /\ IF ret = "ok"
       THEN /\ committed' = [machine_id |-> host_label, ddns_host |-> fqdn]
            /\ apc' = "done"
            /\ UNCHANGED <<exitCode, crash>>
       ELSE /\ apc' = "exit"
            /\ exitCode' = 1
            /\ crash' = ret
            /\ UNCHANGED committed
    /\ UNCHANGED <<zone_id, random_id, host_label, fqdn, attempts, queries, devices, race, inp>>
    /\ UNCHANGED <<bpc, env, zi, hi, errors, printed, hist, lookups, rvars, hvars, svars>>

\* config.py:20-25: the device loop keeps machine_id and ddns_host of the
\* finished generator and runs a new MachineIDGenerator for the next device
A_NextDevice ==
    /\ apc = "done"
    /\ Len(devices) + 1 < MaxDevices
    /\ devices' = Append(devices, [machine_id |-> committed.machine_id,
                                    ddns_host |-> committed.ddns_host,
                                    pre |-> queries[Len(queries)].n])
    /\ apc' = "gen"
    /\ random_id' = <<>>
    /\ host_label' = <<>>
    /\ fqdn' = <<>>
    /\ committed' = NoCall
    /\ attempts' = 0
    /\ queries' = <<>>
    /\ UNCHANGED <<zone_id, race, inp, rvars, hvars, bvars, svars>>

\* another writer of the zone creates a record at the candidate's name after
\* the uniqueness query (machineidgenerator.py:110) and before the commit
\* (machineidgenerator.py:321)
A_OtherWriter ==
    /\ apc = "commit"
    /\ Len(store) < MaxInitRecs
    /\ Len(ListRecords(store, zone_id, fqdn)) = 0
    /\ store' = ApplyCreate(store, zone_id, fqdn, IPOld)
    /\ UNCHANGED <<rpc, arg, recs, idx, updated, ret, out, calls>>
    /\ UNCHANGED <<hvars, bvars, avars, svars>>

InitAlloc ==
    /\ store \in Stores(InitRecordsAlloc, MaxInitRecs)
    /\ rpc = "idle"
    /\ arg = [code |-> "do", client |-> "cf", zone |-> ZoneIdCF1, name |-> H1, ip |-> Placeholder]
    /\ recs = <<>>
    /\ idx = 1
    /\ updated = FALSE
    /\ ret = "none"
    /\ out = <<>>
    /\ calls = <<>>
    /\ prev = NoCall
    /\ ncalls = 0
    /\ bpc = "none"
    /\ env = [cftoken |-> TRUE, dotoken |-> TRUE]
    /\ zi = 1
    /\ hi = 1
    /\ errors = <<>>
    /\ printed = <<>>
    /\ hist = [h \in Hosts |-> NoCall]
    /\ lookups = <<>>
    /\ exitCode = -1
    /\ crash = "none"
    /\ boot = BootIdle
    /\ apc = "gen"
    /\ zone_id \in AllocZoneIds
    /\ random_id = <<>>
    /\ host_label = <<>>
    /\ fqdn = <<>>
    /\ committed = NoCall
    /\ attempts = 0
    /\ queries = <<>>
    /\ devices = <<>>
    /\ race = RaceIdle
    /\ inp = InputIdle

NextAlloc ==
    \/ A_Generate
    \/ A_Unique
    \/ A_Commit
    \/ A_Return
    \/ A_NextDevice
    \/ A_OtherWriter
    \/ Reconcile /\ UNCHANGED <<hvars, bvars, avars, svars>>

SpecAlloc == InitAlloc /\ [][NextAlloc]_vars

\* the process that runs generate is never suspended for ever: a step that
\* is possible is eventually taken
SpecAllocLive == InitAlloc /\ [][NextAlloc]_vars /\ WF_vars(NextAlloc)

----------------------------------------------------------------------------
(* Two processes that each run MachineIDGenerator.generate on the same     *)
(* zone; their steps interleave freely.                                    *)

\* what the other variables do during a step of one of the two generators
RaceFrame ==
    UNCHANGED <<rvars, hvars, bvars, svars, apc, zone_id, random_id, host_label, fqdn,
                committed, attempts, queries, devices, inp>>

\* how ddns.do_dns_update(self.cf, self.zone_id, self.fqdn, "::1") ends
\* (machineidgenerator.py:321): agent.py:212-214 returns when the zone id is
\* no part of the name; otherwise do.domains on the Cloudflare client raises
\* AttributeError, which agent.py:223-227 formats with %d: TypeError.  No API
\* call is issued on either path.
CommitOutcome(zone, name) == IF Find(name, zone) = -1 THEN "ok" ELSE "TypeError"

\* machineidgenerator.py:316-318, 108-109
Rc_Generate(p) ==
    /\ race[p].pc = "gen"
    /\ race[p].attempts < MaxAttempts
    /\ \E rid \in RandomIds :
        race' = [race EXCEPT ![p].fqdn = Fqdn(rid),
                             ![p].attempts = @ + 1,
                             ![p].pc = IF ValidDomain(Fqdn(rid)) THEN "unique" ELSE "gen"]
    /\ RaceFrame

\* machineidgenerator.py:110-131
Rc_Unique(p) ==
    /\ race[p].pc = "unique"
    /\ \E res \in {"ok", "err"} :
        race' = [race EXCEPT ![p].pc =
                    IF res = "err" THEN "exit"
                    ELSE IF Len(ListRecords(store, zone_id, race[p].fqdn)) # 0
                         THEN "gen" ELSE "commit"]
    /\ RaceFrame

\* machineidgenerator.py:319-324
Rc_Commit(p) ==
    /\ race[p].pc = "commit"
    /\ race' = [race EXCEPT
                  ![p].pc = IF CommitOutcome(zone_id, race[p].fqdn) = "ok"
                            THEN "done" ELSE "exit",
                  ![p].committed = (CommitOutcome(zone_id, race[p].fqdn) = "ok"),
                  ![p].pre = Len(ListRecords(store, zone_id, race[p].fqdn))]
    /\ RaceFrame

InitRace ==
    /\ store \in Stores(InitRecordsAlloc, MaxInitRecs)
    /\ rpc = "idle"
    /\ arg = [code |-> "do", client |-> "cf", zone |-> ZoneIdCF1, name |-> H1, ip |-> Placeholder]
    /\ recs = <<>>
    /\ idx = 1
    /\ updated = FALSE
    /\ ret = "none"
    /\ out = <<>>
    /\ calls = <<>>
    /\ prev = NoCall
    /\ ncalls = 0
    /\ bpc = "none"
    /\ env = [cftoken |-> TRUE, dotoken |-> TRUE]
    /\ zi = 1
    /\ hi = 1
    /\ errors = <<>>
    /\ printed = <<>>
    /\ hist = [h \in Hosts |-> NoCall]
    /\ lookups = <<>>
    /\ exitCode = -1
    /\ crash = "none"
    /\ boot = BootIdle
    /\ apc = "none"
    /\ zone_id \in AllocZoneIds
    /\ random_id = <<>>
    /\ host_label = <<>>
    /\ fqdn = <<>>
    /\ committed = NoCall
    /\ attempts = 0
    /\ queries = <<>>
    /\ devices = <<>>
    /\ race = [p \in Invocations |-> [RaceIdle[p] EXCEPT !.pc = "gen"]]
    /\ inp = InputIdle

NextRace ==
    \/ \E p \in Invocations : Rc_Generate(p)
    \/ \E p \in Invocations : Rc_Unique(p)
    \/ \E p \in Invocations : Rc_Commit(p)

SpecRace == InitRace /\ [][NextRace]_vars

----------------------------------------------------------------------------
(* MachineIDGenerator.__call__ followed through the lengths of its inputs: *)
(* validate_input, the zone lookup, and the first steps of generate.       *)

\* the length limits of a DNS label and of a full name
LabelLimit == 63
FqdnLimit == 253
\* random_id_length as the program constructs the generator
RandomIdLength == 8
\* bounds: the longest MACHINE_PREFIX and MACHINE_NETWORK tried
MaxPrefixLen == 64
MaxNetworkLen == 191

\* -1 stands for a variable that is not set (None)
PrefixLens == -1..MaxPrefixLen
NetworkLens == -1..MaxNetworkLen

\* what the other variables do during a step of __call__
InputFrame ==
    UNCHANGED <<rvars, hvars, bvars, svars, apc, zone_id, random_id, host_label, fqdn,
                committed, attempts, queries, devices, race>>

\* machineidgenerator.py:315-318: len(prefix + "-" + random_id) and
\* len(".".join([host_label, base_domain]))
LabelLen(i) == i.machine_prefix + 1 + i.random_id_length
FqdnLen(i) == LabelLen(i) + 1 + i.machine_network

\* machineidgenerator.py:133-151: the number of error entries
validate_network(i) ==
    IF i.machine_network = -1 THEN 1
    ELSE (IF ~i.network_ok THEN 1 ELSE 0)
         + (IF i.machine_network > FqdnLimit - LabelLimit THEN 2 ELSE 0)

\* machineidgenerator.py:153-188
validate_prefix(i) ==
    IF i.machine_prefix = -1 THEN 1
    ELSE (IF ~i.prefix_ok THEN 1 ELSE 0)
         + (IF i.machine_prefix + 1 + i.random_id_length > LabelLimit THEN 2 ELSE 0)

\* machineidgenerator.py:190-225: the number of entries in errors
validate_input(i) ==
    validate_network(i) + validate_prefix(i)
    + (IF /\ i.machine_network # -1 /\ i.machine_prefix # -1
          /\ i.machine_network # 0 /\ i.machine_prefix # 0
          /\ (i.machine_prefix + 1 + i.random_id_length) + i.machine_network > FqdnLimit
       THEN 2 ELSE 0)

\* machineidgenerator.py:272-276, 224-225
I_ValidateInput ==
    /\ inp.pc = "validate"
    /\ inp' = [inp EXCEPT !.pc = IF validate_input(inp) > 0 THEN "exit" ELSE "zone",
                          !.exit = IF validate_input(inp) > 0 THEN "input" ELSE "none"]
    /\ InputFrame

\* machineidgenerator.py:278-305: the zone lookup, one network call
I_ZoneLookup ==
    /\ inp.pc = "zone"
    /\ \E res \in {"err", "none", "one", "many"} :
        inp' = [inp EXCEPT !.netcalls = @ + 1,
                           !.pc = IF res = "one" THEN "gen" ELSE "exit",
                           !.exit = IF res = "one" THEN "none" ELSE "zone"]
    /\ InputFrame

\* validators.domain(self.fqdn) (machineidgenerator.py:108): the labels are
\* legal when the prefix, the network and the label length are; on a name
\* longer than 253 characters the answer depends on the installed library
DomainVerdicts(i) ==
    IF ~(i.prefix_ok /\ i.network_ok /\ LabelLen(i) <= LabelLimit) THEN {FALSE}
    ELSE IF FqdnLen(i) > FqdnLimit THEN BOOLEAN
    ELSE {TRUE}

\* machineidgenerator.py:315-319, 108-109: a candidate is composed and
\* validated; a name that is no domain name sends the loop round again
I_Generate ==
    /\ inp.pc = "gen"
    /\ inp.candidates < MaxAttempts
    /\ \E v \in DomainVerdicts(inp) :
        inp' = [inp EXCEPT !.candidates = @ + 1,
                           !.pc = IF v THEN "unique" ELSE "gen"]
    /\ InputFrame

\* machineidgenerator.py:121-123: the uniqueness query, one network call
I_Unique ==
    /\ inp.pc = "unique"
    /\ inp' = [inp EXCEPT !.netcalls = @ + 1, !.pc = "queried"]
    /\ InputFrame

\* the inputs: validators.hostname accepts a prefix of 1 to 63 characters
\* only, validators.domain a network of at least 4 ("a.bc")
Inputs ==
    { i \in [pc : {"validate"}, exit : {"none"}, netcalls : {0}, candidates : {0},
             machine_prefix : PrefixLens, prefix_ok : BOOLEAN,
             machine_network : NetworkLens, network_ok : BOOLEAN,
             random_id_length : {RandomIdLength}] :
        /\ i.prefix_ok => (i.machine_prefix >= 1 /\ i.machine_prefix <= LabelLimit)
        /\ i.network_ok => i.machine_network >= 4 }

InitInput ==
    /\ store = <<>>
    /\ rpc = "idle"
    /\ arg = [code |-> "do", client |-> "cf", zone |-> ZoneIdCF1, name |-> H1, ip |-> Placeholder]
    /\ recs = <<>>
    /\ idx = 1
    /\ updated = FALSE
    /\ ret = "none"
    /\ out = <<>>
    /\ calls = <<>>
    /\ prev = NoCall
    /\ ncalls = 0
    /\ bpc = "none"
    /\ env = [cftoken |-> TRUE, dotoken |-> TRUE]
    /\ zi = 1
    /\ hi = 1
    /\ errors = <<>>
    /\ printed = <<>>
    /\ hist = [h \in Hosts |-> NoCall]
    /\ lookups = <<>>
    /\ exitCode = -1
    /\ crash = "none"
    /\ boot = BootIdle
    /\ apc = "none"
    /\ zone_id = <<>>
    /\ random_id = <<>>
    /\ host_label = <<>>
    /\ fqdn = <<>>
    /\ committed = NoCall
    /\ attempts = 0
    /\ queries = <<>>
    /\ devices = <<>>
    /\ race = RaceIdle
    /\ inp \in Inputs

NextInput ==
    \/ I_ValidateInput
    \/ I_ZoneLookup
    \/ I_Generate
    \/ I_Unique

SpecInput == InitInput /\ [][NextInput]_vars

----------------------------------------------------------------------------
(* The start of a run: __call__ of tools/ddns/agent.py ("agent") and of    *)
(* ddns-service/ddns.py ("svc") up to the first provider call.             *)

\* bound: number of lines of ./ddns.hosts
MaxLines == 2

\* agent.py:68-72
ip_finders == <<"https://api6.ipify.org/", "https://www.trackip.net/ip", "https://ipapi.co/ip">>

\* agent.py:33-37: the provider codes
DDNSEngines == {"cf", "do"}

\* a line of the host file after strip().split(" "): the number of its
\* fields, its first field, and what validators.domain says of the zone and
\* host fields (of the only field, when there is one)
Lines ==
    [fields : {1, 3, 4}, engine : DDNSEngines \cup {"xx"},
     zone_ok : BOOLEAN, host_ok : BOOLEAN]

\* agent.py:417-440
line_inp_valid(test) ==
    /\ test.fields = 3
    /\ test.engine \in DDNSEngines
    /\ test.zone_ok /\ test.host_ok

\* ddns.py:165-166: a line that is one domain name
LineValidSvc(test) == test.fields = 1 /\ test.host_ok

\* agent.py:454-463 and ddns.py:162-167: the lines that are kept
KeptLines(code, lines) ==
    SelectSeq(lines, LAMBDA l : IF code = "agent" THEN line_inp_valid(l)
                                ELSE LineValidSvc(l))

HostFiles == UNION {[1..n -> Lines] : n \in 0..MaxLines}

\* what the other variables do during the start of a run
BootFrame == UNCHANGED <<rvars, hvars, bvars, avars>>

\* what requests.get(url, timeout=5) does: it raises, or it gives a text
\* that is an IPv6 literal, or a text that is not
FinderResults == {"raise", "invalid", "valid"}

\* agent.py:83 and 88 (ddns.py:56 and 61): validators.ipv6 on the texts above;
\* the empty string is the initial ip_address of agent.py:73
validators_ipv6(value) == value = "valid"

\* the loop without its `break` (agent.py:83-84): every source is contacted
my_ipv6_addressNoBreak ==
    /\ boot.pc = "ip"
    /\ \E res \in FinderResults :
        LET ip == IF res = "raise" THEN boot.ip_address ELSE res
            last == boot.finder = Len(ip_finders)
        IN  boot' = [boot EXCEPT
                       !.requests = Append(@, ip_finders[boot.finder]),
                       !.responses = Append(@, res),
                       !.ip_address = ip,
                       !.finder = @ + 1,
                       !.pc = IF ~last THEN "ip"
                              ELSE IF validators_ipv6(ip) THEN "hosts" ELSE "exit",
                       !.exit = IF last /\ ~validators_ipv6(ip) THEN "ip" ELSE "none"]
    /\ BootFrame

\* agent.py:51-95 (ddns.py:31-68): one turn of `for url in ip_finders`, and
\* after the last one the test that ends the process
my_ipv6_address ==
    /\ boot.pc = "ip"
    /\ \E res \in FinderResults :
        LET ip == IF res = "raise" THEN boot.ip_address ELSE res
            break == res # "raise" /\ validators_ipv6(ip)
            last == boot.finder = Len(ip_finders)
            over == break \/ last
        IN  boot' = [boot EXCEPT
                       !.requests = Append(@, ip_finders[boot.finder]),
                       !.responses = Append(@, res),
                       !.ip_address = ip,
                       !.finder = @ + 1,
                       !.pc = IF ~over THEN "ip"
                              ELSE IF validators_ipv6(ip) THEN "hosts" ELSE "exit",
                       !.exit = IF over /\ ~validators_ipv6(ip) THEN "ip" ELSE "none"]
    /\ BootFrame

\* agent.py:442-474 (ddns.py:162-171): the host file is read; the process
\* ends when no line is kept
parse_host_file ==
    /\ boot.pc = "hosts"
    /\ boot' = [boot EXCEPT
                  !.dns_names = KeptLines(boot.code, boot.lines),
                  !.pc = IF Len(KeptLines(boot.code, boot.lines)) = 0
                         THEN "exit" ELSE "run",
                  !.exit = IF Len(KeptLines(boot.code, boot.lines)) = 0
                           THEN "config" ELSE "none"]
    /\ BootFrame

\* agent.py:337 (ddns.py:188): the first provider call of the run
S_FirstProviderCall ==
    /\ boot.pc = "run"
    /\ boot' = [boot EXCEPT !.pc = "called", !.provider_calls = @ + 1]
    /\ BootFrame

InitStart ==
    /\ store = <<>>
    /\ rpc = "idle"
    /\ arg = [code |-> "cf", client |-> "cf", zone |-> ZoneIdCF1, name |-> H1, ip |-> IPNew]
    /\ recs = <<>>
    /\ idx = 1
    /\ updated = FALSE
    /\ ret = "none"
    /\ out = <<>>
    /\ calls = <<>>
    /\ prev = NoCall
    /\ ncalls = 0
    /\ bpc = "none"
    /\ env = [cftoken |-> TRUE, dotoken |-> TRUE]
    /\ zi = 1
    /\ hi = 1
    /\ errors = <<>>
    /\ printed = <<>>
    /\ hist = [h \in Hosts |-> NoCall]
    /\ lookups = <<>>
    /\ exitCode = -1
    /\ crash = "none"
    /\ AllocatorIdle
    /\ \E code \in {"agent", "svc"} : \E lines \in HostFiles :
          boot = [pc |-> "ip", code |-> code, lines |-> lines, finder |-> 1,
                  requests |-> <<>>, responses |-> <<>>, ip_address |-> "", dns_names |-> <<>>,
                  provider_calls |-> 0, exit |-> "none"]

NextStart ==
    \/ my_ipv6_address
    \/ parse_host_file
    \/ S_FirstProviderCall

SpecStart == InitStart /\ [][NextStart]_vars

----------------------------------------------------------------------------
(* Properties of one reconcile, checked under SpecReconcile.               *)

IsWrite(c) == c.op \in {"update", "create"}
NoWrites(cs) == \A k \in 1..Len(cs) : ~IsWrite(cs[k])
UpdatesOf(cs, id) == {k \in 1..Len(cs) : cs[k].op = "update" /\ cs[k].id = id}
Reported(o, tag) == \E k \in 1..Len(o) : o[k] = tag
\* the reconcile returned and reported nothing but UNCHANGED, UPDATED, CREATED
Succeeded(o, r) ==
    /\ r = "ok"
    /\ Len(o) > 0
    /\ \A k \in 1..Len(o) : o[k] \in {"UNCHANGED", "UPDATED", "CREATED"}
AllUnchanged(o) == Len(o) > 0 /\ \A k \in 1..Len(o) : o[k] = "UNCHANGED"

\* C1: a reconcile that follows a successful reconcile with the same arguments
\* (nothing else writes the zone in this specification) reports Unchanged and
\* issues no create_record and no update_record call.
C1_Idempotent ==
    (/\ rpc = "returned"
     /\ ret = "ok"
     /\ prev # NoCall
     /\ prev.arg = arg
     /\ Succeeded(prev.out, prev.ret))
    => (AllUnchanged(out) /\ NoWrites(calls))

\* C2: no update_record call names a record that the initial list query
\* returned with the target value, and when the query returned records that all
\* hold the target value no write is issued at all.
C2_NoWriteForMatching ==
    /\ \A k \in 1..Len(recs) :
          recs[k].content = arg.ip => UpdatesOf(calls, recs[k].id) = {}
    /\ (Len(recs) > 0 /\ \A k \in 1..Len(recs) : recs[k].content = arg.ip)
          => NoWrites(calls)

\* C2 witness: a finished reconcile whose initial list mixed a matching and a
\* stale record, the stale one updated
C2_Witness ==
    /\ rpc = "returned"
    /\ ret = "ok"
    /\ Len(recs) = 2
    /\ recs[1].content = arg.ip
    /\ recs[2].content # arg.ip
    /\ UpdatesOf(calls, recs[2].id) # {}

\* C3: a reconcile that completes successfully issued exactly one update_record
\* call per stale record of the initial list and none for the others, and every
\* stale record holds the target value afterwards.
C3_StaleUpdatedOnce ==
    (rpc = "returned" /\ Succeeded(out, ret))
    => \A k \in 1..Len(recs) :
          IF recs[k].content # arg.ip
          THEN /\ Cardinality(UpdatesOf(calls, recs[k].id)) = 1
               /\ store[recs[k].id].content = arg.ip
          ELSE UpdatesOf(calls, recs[k].id) = {}

\* C4: after an empty initial list the reconcile issues exactly one
\* create_record call, queries again, and reports Created only if that query
\* shows a record with the target address.
C4_CreateVerified ==
    (/\ rpc = "returned"
     /\ Len(calls) > 0
     /\ calls[1].res = "ok"
     /\ Len(recs) = 0)
    => /\ Cardinality({k \in 1..Len(calls) : calls[k].op = "create"}) = 1
       /\ Reported(out, "CREATED")
            => /\ Len(calls) = 3
               /\ calls[3].op = "list"
               /\ calls[3].res = "ok"
               /\ \E k \in 1..Len(store) :
                    /\ store[k].zone = arg.zone
                    /\ store[k].name = arg.name
                    /\ store[k].content = arg.ip

\* the writes of the running reconcile that a following query showed applied
VerifiedWrites ==
    {k \in 1..Len(calls) :
        /\ IsWrite(calls[k])
        /\ k + 1 <= Len(calls)
        /\ calls[k + 1].op = "list"
        /\ calls[k + 1].res = "ok"
        /\ calls[k + 1].vis}

\* C5: every Updated or Created report follows a write that a fresh list
\* query, issued after the write was accepted, showed with the target value.
C5_ObservedBeforeSuccess ==
    Cardinality({k \in 1..Len(out) : out[k] \in {"UPDATED", "CREATED"}})
        <= Cardinality(VerifiedWrites)

----------------------------------------------------------------------------
(* Properties of the batch run, checked under Spec.                        *)

Reconciled(h) == hist[h] # NoCall
\* the reconcile of h left with an exception
Raised(h) == Reconciled(h) /\ hist[h].ret # "ok"
\* an entry for the failure of host h is in an error list the run reported
HostFailureCollected(h) ==
    \E i \in 1..Len(printed) : \E j \in 1..Len(printed[i]) : printed[i][j].host = h

Portions == {DnsNamesCF, DnsNamesDO}
\* the hosts configured after h in h's zone
LaterHosts(h) ==
    {g \in Hosts : \E L \in Portions : \E z \in 1..Len(L) :
        \E i \in 1..Len(L[z].hosts) : \E j \in 1..Len(L[z].hosts) :
            i < j /\ L[z].hosts[i] = h /\ L[z].hosts[j] = g}
\* the zones configured after h's zone for the same provider
LaterZones(h) ==
    UNION { {L[y].zone : y \in {y \in 1..Len(L) : \E z \in 1..Len(L) :
                z < y /\ \E i \in 1..Len(L[z].hosts) : L[z].hosts[i] = h}} :
            L \in Portions }
LookedUp(zone) == \E k \in 1..Len(lookups) : lookups[k].zone = zone

\* the accepted writes `op` of a reconcile whose following query did not show
\* the written record with the target value
Mismatches(cs, op) ==
    {k \in 1..Len(cs) :
        /\ cs[k].op = op
        /\ cs[k].res \in {"applied", "dropped"}
        /\ k + 1 <= Len(cs)
        /\ cs[k + 1].op = "list"
        /\ cs[k + 1].res = "ok"
        /\ ~cs[k + 1].vis}

\* C6: when an accepted update_record is not shown by the following list
\* query, the reconcile ends as a failure that reaches the batch, the update is
\* not repeated, and the batch reports it among its host-level failures.
C6_UpdateMismatchRecorded ==
    bpc = "done" =>
        \A h \in Hosts :
            (Reconciled(h) /\ Mismatches(hist[h].calls, "update") # {})
            => /\ Raised(h)
               /\ \A k \in Mismatches(hist[h].calls, "update") :
                     Cardinality(UpdatesOf(hist[h].calls, hist[h].calls[k].id)) = 1
               /\ HostFailureCollected(h)

\* C7: when an accepted create_record is not shown by the following list
\* query, the reconcile ends as a failure that the batch reports among its
\* host-level failures, and the later hosts of the zone are still reconciled.
C7_CreateMismatchRecorded ==
    bpc = "done" =>
        \A h \in Hosts :
            (Reconciled(h) /\ Mismatches(hist[h].calls, "create") # {})
            => /\ Raised(h)
               /\ HostFailureCollected(h)
               /\ \A g \in LaterHosts(h) : Reconciled(g)

\* C8: when the reconcile of a host fails, the failure is in the collected
\* error list, every later host of the zone is reconciled and every later zone
\* of the provider is looked up.
C8_HostFailureIsolated ==
    bpc = "done" =>
        \A h \in Hosts :
            Raised(h)
            => /\ HostFailureCollected(h)
               /\ \A g \in LaterHosts(h) : Reconciled(g)
               /\ \A z \in LaterZones(h) : LookedUp(z)

\* C9: the run ends with a non-zero exit status exactly when a host-level
\* failure was collected.
C9_ExitSignal ==
    bpc = "done" =>
        (exitCode # 0 <=> \E h \in Hosts : HostFailureCollected(h))

\* the configured zones with their hosts, of both providers
Zones ==
    UNION { {[zone |-> L[z].zone, hosts |-> {L[z].hosts[i] : i \in 1..Len(L[z].hosts)}] :
                z \in 1..Len(L)} : L \in Portions }

\* the lookups of a zone, and those that did not return exactly one zone
LookupsOf(zone) == {k \in 1..Len(lookups) : lookups[k].zone = zone}
FailedLookups == {k \in 1..Len(lookups) : lookups[k].res \notin {"one", "found"}}

\* a reconcile of host h has been started
Attempted(h) ==
    \/ Reconciled(h)
    \/ bpc \in {"cf_call", "do_call"} /\ arg.name = h

\* an entry for the failed lookup of the zone is in the error list of the
\* running portion or in one that was reported
ZoneFailureRecorded(zone) ==
    \/ \E j \in 1..Len(errors) : errors[j].kind = "zone" /\ errors[j].zone = zone
    \/ \E i \in 1..Len(printed) : \E j \in 1..Len(printed[i]) :
          printed[i][j].kind = "zone" /\ printed[i][j].zone = zone

\* C16: the hosts of a zone are reconciled only after a lookup that returned
\* exactly one zone; a lookup with no match or several matches is recorded as
\* an error, is not repeated, and no host of that zone is reconciled.
C16_ZoneLookupGuards ==
    /\ \A Z \in Zones : \A h \in Z.hosts :
          Attempted(h) =>
              \E k \in LookupsOf(Z.zone) : lookups[k].res \in {"one", "found"}
    /\ \A k \in FailedLookups :
          /\ LookupsOf(lookups[k].zone) = {k}
          /\ ZoneFailureRecorded(lookups[k].zone)
          /\ \A Z \in Zones : Z.zone = lookups[k].zone =>
                \A h \in Z.hosts : ~Attempted(h)

\* the lookup of the first Cloudflare zone found several zones, that of the
\* second found one and the run went on to its host, and the DigitalOcean
\* zone was not found
C16_Witness ==
    /\ \E k \in FailedLookups : lookups[k].zone = ZoneCF1 /\ lookups[k].res = "many"
    /\ \E k \in FailedLookups : lookups[k].zone = ZoneDO1 /\ lookups[k].res = "not_found"
    /\ Reconciled(H3)
    /\ ~Attempted(H1)
    /\ bpc = "done"

\* the hosts of the zones configured after h's zone for the same provider
HostsOfLaterZones(h) ==
    UNION {Z.hosts : Z \in {Z \in Zones : Z.zone \in LaterZones(h)}}

\* C17: whatever fails in the Cloudflare portion, every DigitalOcean zone is
\* looked up and, when found, its hosts are reconciled, provided the
\* DigitalOcean token is set.
C17_ProvidersIndependent ==
    (bpc = "done" /\ env.dotoken) =>
        \A z \in 1..Len(DnsNamesDO) :
            /\ LookedUp(DnsNamesDO[z].zone)
            /\ (\E k \in LookupsOf(DnsNamesDO[z].zone) : lookups[k].res = "found")
                  => Attempted(DnsNamesDO[z].hosts[1])

\* a provider call of the reconcile of h was rejected
Rejected(h) ==
    /\ Reconciled(h)
    /\ \E k \in 1..Len(hist[h].calls) : hist[h].calls[k].res = "err"

\* an entry that names host h is in the error list of the running portion or
\* in one that was reported
HostEntryRecorded(h) ==
    \/ \E j \in 1..Len(errors) : errors[j].host = h
    \/ HostFailureCollected(h)

\* C18: when the provider rejects a call of the reconcile of a host, no entry
\* for that host is put into the error list, and no later host of the same
\* provider is reconciled.
C18_RejectionPropagates ==
    \A h \in Hosts :
        Rejected(h) =>
            /\ ~HostEntryRecorded(h)
            /\ \A g \in LaterHosts(h) \cup HostsOfLaterZones(h) : ~Attempted(g)

\* the records a provider holds at the name of host h, with their ids
RecordsOf(st, h) == {<<k, st[k]>> : k \in {k \in 1..Len(st) : st[k].name = h}}

\* the reconcile of h has ended and reported success
ReconciledOk(h) == Reconciled(h) /\ Succeeded(hist[h].out, hist[h].ret)

\* this step issues an update or a create
WriteIssued == Len(calls') > Len(calls) /\ IsWrite(calls'[Len(calls')])

\* C20: once the reconcile of a host has ended successfully, no later step of
\* the run issues a write for that host or changes a record of it, whatever
\* fails afterwards.
C20_SuccessRetained ==
    [][\A h \in Hosts : ReconciledOk(h) =>
          /\ RecordsOf(store', h) = RecordsOf(store, h)
          /\ WriteIssued => /\ arg.name # h
                            /\ \A r \in RecordsOf(store, h) :
                                  r[1] # calls'[Len(calls')].id]_vars

\* host a.p.c was updated to the target address, the reconcile of a later
\* host failed and ended the run, and a.p.c still holds the target address
C20_Witness ==
    /\ ReconciledOk(H1)
    /\ \E k \in 1..Len(hist[H1].calls) :
          IsWrite(hist[H1].calls[k]) /\ hist[H1].calls[k].res = "applied"
    /\ Raised(H2)
    /\ bpc = "done"
    /\ \E r \in RecordsOf(store, H1) : r[2].content = IPNew

\* the zone of host h was looked up and found, in a portion that ran
ZoneResolved(h) ==
    \E Z \in Zones : h \in Z.hosts /\
        \E k \in LookupsOf(Z.zone) : lookups[k].res \in {"one", "found"}

\* the outcomes the run reported for host h: the report lines of its
\* reconcile and the entries for it in the reported error lists
Outcomes(h) ==
    (IF Reconciled(h) THEN Len(hist[h].out) ELSE 0)
    + Cardinality({ij \in {<<i, j>> : i \in 1..Len(printed), j \in 1..MaxBatchRecs + 1} :
                     /\ ij[2] <= Len(printed[ij[1]])
                     /\ printed[ij[1]][ij[2]].host = h})

\* C23: at the end of a run every configured host whose zone was resolved has
\* exactly one outcome, whatever the number of records at its name.
C23_OneOutcomePerHost ==
    bpc = "done" => \A h \in Hosts : ZoneResolved(h) => Outcomes(h) = 1

\* what the lookup of a zone resolves it to: Cloudflare's zone identifier,
\* DigitalOcean's domain name
ResolvedAs(h) ==
    {DnsNamesCF[z].id : z \in {z \in 1..Len(DnsNamesCF) :
        \E i \in 1..Len(DnsNamesCF[z].hosts) : DnsNamesCF[z].hosts[i] = h}}
    \cup
    {DnsNamesDO[z].zone : z \in {z \in 1..Len(DnsNamesDO) :
        \E i \in 1..Len(DnsNamesDO[z].hosts) : DnsNamesDO[z].hosts[i] = h}}

\* C25: a zone is looked up at most once in a run and before any of its hosts
\* is reconciled; its hosts are reconciled one after the other in the order
\* of the configuration, each against what that lookup resolved.
C25_ZoneResolvedOnce ==
    /\ \A Z \in Zones : Cardinality(LookupsOf(Z.zone)) <= 1
    /\ \A h \in Hosts : Attempted(h) => ZoneResolved(h)
    /\ \A h \in Hosts : \A g \in LaterHosts(h) :
          Attempted(g) => (Reconciled(h) /\ hist[h].ret = "ok")
    /\ bpc \in {"cf_call", "do_call"} => arg.zone \in ResolvedAs(arg.name)

\* every zone was found and every host reconciled, one zone after the other
C25_Witness ==
    /\ bpc = "done"
    /\ \A h \in Hosts : Reconciled(h)
    /\ Len(lookups) = Len(DnsNamesCF) + Len(DnsNamesDO)

----------------------------------------------------------------------------
(* Properties of the allocator, checked under SpecAlloc.                   *)

\* C10: when generate has returned a committed identifier, the zone holds a
\* record at that fqdn with the placeholder value ::1.
C10_CommittedHoldsPlaceholder ==
    committed # NoCall =>
        \E k \in 1..Len(store) :
            /\ store[k].zone = zone_id
            /\ store[k].name = committed.ddns_host
            /\ store[k].content = Placeholder

\* the identifiers committed so far by the device loop, the running
\* generator's included, each with the number of address records the
\* uniqueness query found at its fqdn
AllCommitted ==
    devices \o (IF committed = NoCall THEN <<>>
                ELSE <<[machine_id |-> committed.machine_id,
                        ddns_host |-> committed.ddns_host,
                        pre |-> queries[Len(queries)].n]>>)

\* C11: over the allocations of one device loop in one zone, no two committed
\* identifiers share an fqdn, and each had no address record at its fqdn
\* when it was committed.
C11_AllocationsUnique ==
    /\ \A i, j \in 1..Len(AllCommitted) :
          i # j => AllCommitted[i].ddns_host # AllCommitted[j].ddns_host
    /\ \A i \in 1..Len(AllCommitted) : AllCommitted[i].pre = 0

\* C12: when generate returns, the uniqueness query found a record for every
\* candidate but the last and none for the last, there was one query per
\* candidate (N+1 in all), the last candidate is the one returned, and exactly
\* one write (the commit) was issued.
C12_RetryCounts ==
    apc = "done" =>
        /\ Len(queries) = attempts
        /\ \A i \in 1..(Len(queries) - 1) : queries[i].n > 0
        /\ queries[Len(queries)].n = 0
        /\ queries[Len(queries)].name = committed.ddns_host
        /\ Cardinality({k \in 1..Len(calls) : IsWrite(calls[k])}) = 1

----------------------------------------------------------------------------
(* Properties of two racing generators, checked under SpecRace.            *)

\* C13: with two generators interleaved on one zone, a committed fqdn held no
\* address record at the moment of its commit, and the two invocations never
\* both commit the same fqdn.
C13_RaceCommitsDistinct ==
    /\ \A p \in Invocations : race[p].committed => race[p].pre = 0
    /\ \A p, q \in Invocations :
          (p # q /\ race[p].committed /\ race[q].committed)
              => race[p].fqdn # race[q].fqdn

----------------------------------------------------------------------------
(* Properties of the input validation, checked under SpecInput.            *)

\* validate_input has accepted the inputs
Accepted == inp.pc \in {"zone", "gen", "unique", "queried"}

\* the composed fqdn is no legal domain name or breaks a length limit
IllegalFqdn ==
    \/ inp.machine_prefix = -1 \/ inp.machine_network = -1
    \/ ~inp.prefix_ok \/ ~inp.network_ok
    \/ LabelLen(inp) > LabelLimit
    \/ FqdnLen(inp) > FqdnLimit

\* C14: when the composed fqdn is not a legal domain name or breaks a length
\* limit, no network call is issued, no second candidate is generated, and the
\* allocator ends with a fatal error.
C14_IllegalFqdnFatal ==
    IllegalFqdn =>
        /\ inp.netcalls = 0
        /\ inp.candidates <= 1
        /\ inp.pc \in {"validate", "exit"}

\* C15: for inputs that validate_input accepts, the host label has at most 63
\* characters and the fqdn at most 253.
C15_AcceptedLengths ==
    Accepted => (LabelLen(inp) <= LabelLimit /\ FqdnLen(inp) <= FqdnLimit)

----------------------------------------------------------------------------
(* Further properties of one reconcile, checked under SpecReconcile.       *)

\* the update calls of the reconcile that the provider refused
RefusedUpdates(cs) == {k \in 1..Len(cs) : cs[k].op = "update" /\ cs[k].res = "err"}
CreatesAfter(cs, k) == {j \in 1..Len(cs) : j > k /\ cs[j].op = "create"}

\* C19: when an update is refused because the record is gone, the reconcile
\* issues exactly one create after it and does not end with a failure.
C19_UpdateFallsBackToCreate ==
    rpc = "returned" =>
        \A k \in RefusedUpdates(calls) :
            /\ Cardinality(CreatesAfter(calls, k)) = 1
            /\ ret = "ok"

\* the last call issued, when this step issues one
Issued == Len(calls') > Len(calls)
LastCall == calls'[Len(calls')]

\* C22: an update that the provider applies changes the address value of the
\* record and nothing else; the pass-through flag of the record after the
\* update is its flag before the update.
C22_UpdateKeepsFlag ==
    [][(Issued /\ LastCall.op = "update") =>
          IF LastCall.res = "applied"
          THEN /\ store' = [store EXCEPT ![LastCall.id].content = arg.ip]
               /\ store'[LastCall.id].proxied = store[LastCall.id].proxied
          ELSE store' = store]_vars

\* a Cloudflare reconcile has updated a record whose flag is set
C22_Witness ==
    /\ rpc = "returned"
    /\ IsCF
    /\ \E k \in 1..Len(calls) :
          /\ calls[k].op = "update"
          /\ calls[k].res = "applied"
          /\ store[calls[k].id].proxied
          /\ store[calls[k].id].content = arg.ip

\* the create calls of a reconcile
Creates(cs) == {k \in 1..Len(cs) : cs[k].op = "create"}

\* C24: a reconcile issues a create only when its initial list query returned
\* no record.
C24_CreateOnlyOnEmptyList ==
    Creates(calls) # {} =>
        /\ Len(recs) = 0
        /\ calls[1].op = "list" /\ calls[1].res = "ok"

\* a create was issued after an empty list, and another reconcile found
\* records and ended without a create
C24_Witness ==
    /\ rpc = "returned"
    /\ Len(recs) > 0
    /\ Creates(calls) = {}
    /\ prev # NoCall
    /\ Reported(prev.out, "CREATED")

\* the calls of a reconcile by operation, and those that failed
CallsOf(cs, op) == {k \in 1..Len(cs) : cs[k].op = op}
FailedCalls(cs) == {k \in 1..Len(cs) : cs[k].res = "err"}

\* C26: a reconcile repeats no operation: at most one update per record of
\* the initial list, at most one create, at most one query per write besides
\* the initial one, and nothing after a call that failed.
C26_NoRetry ==
    /\ Cardinality(CallsOf(calls, "update")) <= Len(recs)
    /\ \A i \in 1..Len(recs) : Cardinality(UpdatesOf(calls, recs[i].id)) <= 1
    /\ Cardinality(CallsOf(calls, "create")) <= 1
    /\ Cardinality(CallsOf(calls, "list"))
          <= 1 + Cardinality(CallsOf(calls, "update")) + Cardinality(CallsOf(calls, "create"))
    /\ \A k \in FailedCalls(calls) : k = Len(calls)
    /\ \A k \in 2..Len(calls) : calls[k].op = "list" => IsWrite(calls[k - 1])

\* the first of two stale records was updated and verified, the update of the
\* second failed and ended the reconcile
C26_Witness ==
    /\ rpc = "returned"
    /\ Len(recs) = 2
    /\ Cardinality(CallsOf(calls, "update")) = 2
    /\ \E k \in FailedCalls(calls) : calls[k].op = "update"

\* s ends with suf
HasSuffix(s, suf) ==
    Len(s) >= Len(suf) /\ SubSeq(s, Len(s) - Len(suf) + 1, Len(s)) = suf

\* the id of the record that the write of this step is about
WrittenId == IF LastCall.op = "create" THEN Len(store') ELSE LastCall.id

\* C30: for a DigitalOcean host whose name ends with "." and the zone, the
\* name submitted in updates and creates is the host name without that
\* suffix, the list query uses the full host name, and a write that is
\* applied leaves the record where a list query for the host finds it.
C30_DoNameStripped ==
    [][(/\ arg.code = "do" /\ arg.client = "do"
        /\ HasSuffix(arg.name, DOT \o arg.zone)
        /\ Issued /\ IsWrite(LastCall)) =>
          /\ DoName \o DOT \o arg.zone = arg.name
          /\ LastCall.res = "applied" =>
                \E k \in 1..Len(ListRecords(store', arg.zone, arg.name)) :
                    /\ ListRecords(store', arg.zone, arg.name)[k].id = WrittenId
                    /\ ListRecords(store', arg.zone, arg.name)[k].content = arg.ip]_vars

\* a DigitalOcean reconcile has created a record that the list query for the
\* host returns
C30_Witness ==
    /\ rpc = "returned"
    /\ arg.code = "do" /\ arg.client = "do"
    /\ HasSuffix(arg.name, DOT \o arg.zone)
    /\ \E k \in CallsOf(calls, "create") : calls[k].res = "applied"
    /\ \E k \in 1..Len(ListRecords(store, arg.zone, arg.name)) :
          ListRecords(store, arg.zone, arg.name)[k].content = arg.ip

----------------------------------------------------------------------------
(* Properties of the start of a run, checked under SpecStart.              *)

\* C21: when the run is aborted because the host file holds no valid line,
\* no IP lookup request and no provider call has been made.
C21_ConfigErrorBeforeNetwork ==
    (boot.pc = "exit" /\ boot.exit = "config") =>
        (Len(boot.requests) = 0 /\ boot.provider_calls = 0)

----------------------------------------------------------------------------
(* Further properties of the allocator.                                    *)

\* C27: once the uniqueness query has returned an empty result for a
\* candidate, generate leaves its loop and returns an identifier (checked
\* under SpecAllocLive).
C27_FreeCandidateReturns == (apc = "commit") ~> (apc = "done")

\* C28: during an allocation no update is issued and no record that exists
\* is changed, also when another writer has created a record at the
\* candidate's name between the uniqueness query and the commit.
C28_CommitNeverUpdates ==
    [][/\ CallsOf(calls', "update") = {}
       /\ \A k \in 1..Len(store) : Len(store') >= k /\ store'[k] = store[k]]_vars

\* generate has returned a name at which another writer created a record
\* after the uniqueness query had found none; the record holds that writer's
\* value
C28_Witness ==
    /\ apc = "done"
    /\ queries[Len(queries)].n = 0
    /\ \E k \in 1..Len(store) :
          /\ store[k].zone = zone_id
          /\ store[k].name = committed.ddns_host
          /\ store[k].content = IPOld

\* C29: the identifier generate returns is the prefix, "-" and a label of
\* random_id_length lowercase letters; its fqdn is that host label, "." and
\* the network name; both are those of the last candidate tested.
C29_IdentifierForm ==
    committed # NoCall =>
        /\ Len(random_id) = LabelLength
        /\ \A i \in 1..Len(random_id) : random_id[i] \in Alphabet
        /\ committed.machine_id = Prefix \o <<"-">> \o random_id
        /\ committed.ddns_host = committed.machine_id \o <<".">> \o BaseDomain
        /\ committed.ddns_host = queries[Len(queries)].name

\* generate has returned its second candidate after discarding a first one
\* with another label
C29_Witness ==
    /\ apc = "done"
    /\ Len(queries) = 2
    /\ queries[1].n > 0
    /\ queries[1].name # committed.ddns_host

----------------------------------------------------------------------------
(* Properties of IP discovery, checked under SpecStart.                    *)

\* my_ipv6_address has returned: the run has gone on to the host file
Returned ==
    \/ boot.pc \in {"hosts", "run", "called"}
    \/ boot.pc = "exit" /\ boot.exit = "config"

NoValidResponse(rs) == \A k \in 1..Len(rs) : ~validators_ipv6(rs[k])

\* C31: my_ipv6_address contacts the lookup sources in their fixed order; it
\* returns the response of the first source whose response is a valid IPv6
\* literal and contacts no source after that one; it never returns a value
\* that failed validation; and when all sources were contacted and none gave
\* a valid address the process ends with a failure.
C31_IPDiscovery ==
    /\ Len(boot.requests) <= Len(ip_finders)
    /\ Len(boot.responses) = Len(boot.requests)
    /\ \A k \in 1..Len(boot.requests) : boot.requests[k] = ip_finders[k]
    /\ \A k \in 1..(Len(boot.responses) - 1) : ~validators_ipv6(boot.responses[k])
    /\ boot.pc = "ip" => NoValidResponse(boot.responses)
    /\ Returned =>
          /\ validators_ipv6(boot.ip_address)
          /\ boot.responses[Len(boot.responses)] = boot.ip_address
    /\ (boot.pc = "exit" /\ boot.exit = "ip") =>
          /\ Len(boot.requests) = Len(ip_finders)
          /\ NoValidResponse(boot.responses)
    /\ (Len(boot.responses) = Len(ip_finders) /\ NoValidResponse(boot.responses)) =>
          (boot.pc = "exit" /\ boot.exit = "ip")

\* the first source answered with a text that is no IPv6 literal, the second
\* with a valid one, and the run went on to its first provider call with the
\* third source never contacted
C31_Witness ==
    /\ boot.pc = "called"
    /\ boot.responses = <<"invalid", "valid">>
    /\ boot.requests = <<ip_finders[1], ip_finders[2]>>
    /\ boot.ip_address = "valid"

----------------------------------------------------------------------------
(* Properties of the DigitalOcean portion, checked under Spec.             *)

\* the (zone, host) pairs of the DigitalOcean portion whose host name does
\* not contain the zone name
OutsideZone ==
    {t \in TargetsDO : Find(t.name, t.zone) = -1}

HostsIn(es) == {es[k].host : k \in 1..Len(es)}

\* C32: for the DigitalOcean provider, a host name that does not contain the
\* zone name makes do_dns_update return without a list, create or update
\* call and without raising, and the host is not added to the collected
\* error list of the batch.
C32_HostOutsideZoneSkipped ==
    \A t \in OutsideZone :
        /\ (bpc = "do_call" /\ arg.name = t.name) =>
              (calls = <<>> /\ ret \in {"none", "ok"})
        /\ hist[t.name] # NoCall =>
              /\ hist[t.name].ret = "ok"
              /\ hist[t.name].calls = <<>>
        /\ t.name \notin HostsIn(errors)
        /\ \A k \in 1..Len(printed) : t.name \notin HostsIn(printed[k])

\* the batch is over, do_dns_update was called for the host outside its zone
\* and printed that it is not part of the zone
C32_Witness ==
    /\ bpc = "done"
    /\ hist[H6] # NoCall
    /\ hist[H6].out = <<"ERR_NOT_IN_ZONE">>
    /\ [zone |-> ZoneDO1, name |-> H6] \in OutsideZone

----------------------------------------------------------------------------
(* Properties of a failed uniqueness query, checked under SpecAlloc.       *)

\* the k-th uniqueness query of the running generate failed with an API error
QueryFailedAt(k) == queries[k].n = -1

\* C33: if the uniqueness query of the allocator fails with a provider API
\* error, the process ends at once: that query is the last one and no other
\* candidate is drawn, do_dns_update is not entered for the candidate and no
\* write is issued, generate sets no machine_id and no ddns_host, and nothing
\* happens afterwards.
C33_QueryFailureEndsRun ==
    /\ [](\A k \in 1..Len(queries) : QueryFailedAt(k) =>
              /\ k = Len(queries)
              /\ queries[k].name = fqdn
              /\ apc = "exit"
              /\ exitCode = 1
              /\ crash = "SystemExit"
              /\ committed = NoCall
              /\ rpc \in {"idle", "returned"}
              /\ NoWrites(calls))
    /\ [][(Len(queries') > Len(queries) /\ queries'[Len(queries')].n = -1)
              => UNCHANGED <<store, rpc, arg, calls, committed, devices>>]_vars
    /\ [][(Len(queries) > 0 /\ QueryFailedAt(Len(queries))) => UNCHANGED vars]_vars

\* the query of the second candidate failed after the first candidate had
\* been found taken
C33_Witness ==
    /\ apc = "exit"
    /\ Len(queries) = 2
    /\ queries[1].n > 0
    /\ QueryFailedAt(2)
    /\ committed = NoCall

====
